---- MODULE Spec2Model ----
(***************************************************************************)
(* Model of the clustered express server of app.js (the later revision,    *)
(* with the memory and gc endpoints, is src/unnamed/part_001).  The static *)
(* page at / has no state and is left out.                                 *)
(*                                                                         *)
(* A primary process forks workerCount server processes.  Each server      *)
(* process is a single-threaded event loop: one action below is one        *)
(* run-to-completion callback of that loop (a request handler up to its    *)
(* first await, a timer callback, a worker event, a signal handler).       *)
(* Worker threads run beside the loop and talk to it through events.       *)
(*                                                                         *)
(* Time is kept by count-down: Tick lets the smallest outstanding amount   *)
(* of time pass.  A timer may fire once its remaining time is 0, that is   *)
(* once the delay it was armed with has passed; nothing forces it to fire  *)
(* at once (timers of a loaded event loop run late).                       *)
(***************************************************************************)
EXTENDS Integers, Sequences, FiniteSets

(* ---------------------------- bounds ---------------------------------- *)
MaxReq == 2          \* request slots of the main specification
MaxPid == 3          \* process ids the primary can hand out
MaxLen == 2          \* longest path parameter of the one-request specification
MaxLiveReq == 1      \* request slots of the specification with fairness
MaxGc == 1           \* collections the gc observer of a process records

(* ----------------------- program constants ---------------------------- *)
workerCount == 2
GracePeriodMs == 5000
MsPerSecond == 1000
DefaultDelay == 100
DefaultSeconds == 1
DefaultMB == 100
chunkSizeMB == 10
AllocPauseMs == 100
ReleaseAfterMs == 5000
GcSettleMs == 100
TIMEOUT_MAX == 2147483647

NoTimer == 0 - 1

Reqs == 1..MaxReq
Pids == 1..MaxPid

(* ------------------- path parameters and parseInt --------------------- *)
\* A path parameter is a non-empty sequence of one-character strings.
Alphabet == {"0", "1", "2", "a", "-"}

RECURSIVE StringsUpTo(_)
StringsUpTo(n) ==
    IF n = 0 THEN {<<>>}
    ELSE LET shorter == StringsUpTo(n - 1)
         IN  shorter \cup {Append(s, c) : s \in shorter, c \in Alphabet}

\* 2147479 seconds: seconds * 1000 + 5000 exceeds the largest timer delay.
BigParam == <<"2", "1", "4", "7", "4", "7", "9">>

AllParams == (StringsUpTo(MaxLen) \ {<<>>}) \cup {BigParam}

DigitVal ==
    [c \in {"0", "1", "2", "3", "4", "5", "6", "7", "8", "9",
            "a", "b", "c", "d", "e", "f"} |->
        CASE c = "0" -> 0 [] c = "1" -> 1 [] c = "2" -> 2 [] c = "3" -> 3
          [] c = "4" -> 4 [] c = "5" -> 5 [] c = "6" -> 6 [] c = "7" -> 7
          [] c = "8" -> 8 [] c = "9" -> 9 [] c = "a" -> 10 [] c = "b" -> 11
          [] c = "c" -> 12 [] c = "d" -> 13 [] c = "e" -> 14 [] c = "f" -> 15]

IsDigit(c, radix) == c \in DOMAIN DigitVal /\ DigitVal[c] < radix

RECURSIVE StripWs(_)
StripWs(s) == IF s # <<>> /\ s[1] = " " THEN StripWs(Tail(s)) ELSE s

\* Number of leading characters of s that are digits of the radix.
RECURSIVE DigitPrefix(_, _)
DigitPrefix(s, radix) ==
    IF s # <<>> /\ IsDigit(s[1], radix)
    THEN 1 + DigitPrefix(Tail(s), radix)
    ELSE 0

RECURSIVE DigitsValue(_, _, _)
DigitsValue(s, n, radix) ==
    IF n = 0 THEN 0
    ELSE DigitsValue(s, n - 1, radix) * radix + DigitVal[s[n]]

NaN == [nan |-> TRUE, val |-> 0]

\* parseInt(string) without a radix: leading blanks, a sign, a 0x prefix,
\* then the longest run of digits; NaN when there is no digit.
ParseInt(s) ==
    LET t     == StripWs(s)
        neg   == t # <<>> /\ t[1] = "-"
        u     == IF t # <<>> /\ t[1] \in {"+", "-"} THEN Tail(t) ELSE t
        hex   == Len(u) >= 2 /\ u[1] = "0" /\ u[2] \in {"x", "X"}
        radix == IF hex THEN 16 ELSE 10
        v     == IF hex THEN SubSeq(u, 3, Len(u)) ELSE u
        n     == DigitPrefix(v, radix)
        m     == DigitsValue(v, n, radix)
    IN  IF n = 0 THEN NaN
        ELSE [nan |-> FALSE, val |-> IF neg THEN 0 - m ELSE m]

\* `parseInt(x) || d`: NaN and 0 are falsy.
OrDefault(p, d) == IF p.nan \/ p.val = 0 THEN d ELSE p.val

(* ------------------------------ timers -------------------------------- *)
\* setTimeout(cb, ms): a delay outside 1..TIMEOUT_MAX is set to 1.
SetTimeout(ms) == IF ms >= 1 /\ ms <= TIMEOUT_MAX THEN ms ELSE 1

\* Mutant: the grace period left out.
HardTimeoutNoGrace(seconds) == seconds * MsPerSecond

\* seconds * 1000 + 5000, the delay of the cpu handler's timeout timer.
HardTimeout(seconds) == seconds * MsPerSecond + GracePeriodMs

\* Whether HardTimeout(seconds) is at most TIMEOUT_MAX (decided without
\* computing a number beyond 32 bits).
HardTimeoutFits(seconds) ==
    seconds <= (TIMEOUT_MAX - GracePeriodMs) \div MsPerSecond

CpuTimerDelay(seconds) ==
    IF HardTimeoutFits(seconds) THEN SetTimeout(HardTimeout(seconds)) ELSE 1

\* The worker's loop runs while Date.now() - start < seconds * 1000.
BusyMs(seconds) == IF seconds > 0 THEN seconds * MsPerSecond ELSE 0

(* ----------------------------- messages ------------------------------- *)
\* Texts are sequences of lower-case words, so that "mentions" is decidable.
Mentions(text, word) == \E i \in 1..Len(text) : text[i] = word

CpuTaskFailed == <<"cpu", "task", "failed">>
WorkerTimeoutMsg == <<"worker", "timeout">>
WorkerErrorMsg == <<"worker", "thread", "fault">>
WorkerInitMsg == <<"worker", "init", "failed">>
AllocFailed == <<"memory", "allocation", "failed">>
AllocErrorMsg == <<"array", "buffer", "allocation", "failed">>
GcUnavailable == <<"garbage", "collection", "not", "available">>
GcFlagMsg == <<"node", "was", "not", "started", "with", "expose", "gc", "flag">>
GcFailed == <<"failed", "to", "trigger", "garbage", "collection">>
GcErrorMsg == <<"gc", "threw">>
ServerError == <<"server", "error">>

Response(status, body) == [status |-> status, body |-> body]


(* ------------------------------ state --------------------------------- *)
VARIABLES
    procs,          \* pid -> "unborn" | "live" | "exited"   (cluster.workers)
    pendingExit,    \* exited pids whose 'exit' event the primary has not handled
    exposeGc,       \* whether the processes run with --expose-gc (global.gc)
    gcStats,        \* pid -> gcStats.collections of the process
    gcCalls,        \* pid -> number of global.gc() calls of the process
    activeWorkers,  \* pid -> the process's Set of registered workers
    kind,           \* request -> "none" | "cpu" | "delay" | "memory" | "gc" | "health" | "bad"
    param,          \* request -> the raw path parameter
    proc,           \* request -> the pid serving it (0 before arrival)
    pc,             \* request -> where its handler is ("queued": not yet entered)
    val,            \* request -> the handler's parsed number (seconds, delay, targetMB)
    resp,           \* request -> the responses sent so far, in order
    timer,          \* request -> ms left on the handler's pending timer, or NoTimer
    armed,          \* request -> the delay its latest timer was armed with
    wstate,         \* request -> what its worker thread did last: "none" | "running" | "idle" | "errored"
    wload,          \* request -> the workload posted to the worker
    wbusy,          \* request -> ms left of the busy loop of its workload
    posted,         \* request -> the duration in the message the worker posted, or NoMsg
    inbox,          \* request -> whether that message awaits delivery to the event loop
    termCalls,      \* request -> number of worker.terminate() calls
    held            \* request -> chunks referenced by memoryChunks

vars == <<procs, pendingExit, exposeGc, gcStats, gcCalls, activeWorkers, kind,
          param, proc, pc, val, resp, timer, armed, wstate, wload, wbusy, posted,
          inbox, termCalls, held>>

procVars == <<procs, pendingExit, exposeGc, gcStats, gcCalls>>
workerVars == <<wstate, wload, wbusy, posted, inbox, termCalls>>

NoMsg == 0 - 1

\* Parameters of the main specification (the one-request specification
\* draws from AllParams).
CpuParams == {<<"1">>}
\* Milliseconds by which a worker's measurement overshoots its busy time.
Jitter == {0, 1}
MemParams == {<<"0">>, <<"5">>, <<"2", "0">>, <<"a">>}

\* No request has arrived and nothing is scheduled.
Quiet ==
    /\ pendingExit = {}
    /\ gcStats = [p \in Pids |-> 0]
    /\ gcCalls = [p \in Pids |-> 0]
    /\ activeWorkers = [p \in Pids |-> {}]
    /\ kind = [r \in Reqs |-> "none"]
    /\ param = [r \in Reqs |-> <<>>]
    /\ proc = [r \in Reqs |-> 0]
    /\ pc = [r \in Reqs |-> "idle"]
    /\ val = [r \in Reqs |-> 0]
    /\ resp = [r \in Reqs |-> <<>>]
    /\ timer = [r \in Reqs |-> NoTimer]
    /\ armed = [r \in Reqs |-> 0]
    /\ wstate = [r \in Reqs |-> "none"]
    /\ wload = [r \in Reqs |-> 0]
    /\ wbusy = [r \in Reqs |-> 0]
    /\ posted = [r \in Reqs |-> NoMsg]
    /\ inbox = [r \in Reqs |-> FALSE]
    /\ termCalls = [r \in Reqs |-> 0]
    /\ held = [r \in Reqs |-> 0]

\* The primary has forked workerCount server processes; nothing has arrived.
Started ==
    /\ procs = [p \in Pids |-> IF p <= workerCount THEN "live" ELSE "unborn"]
    /\ Quiet

\* The container's command: node --expose-gc app.js.
Init == exposeGc = TRUE /\ Started

\* Any launch: with or without --expose-gc.
InitOne == exposeGc \in BOOLEAN /\ Started

Live(p) == procs[p] = "live"

\* Mutant: callbacks of a process keep running after process.exit.
ServingAfterExit(r) == kind[r] # "none"

\* worker.terminate() stops the thread; a terminated thread does nothing more.
Terminated(r) == termCalls[r] > 0
WorkerRunning(r) == wstate[r] = "running" /\ ~Terminated(r)
Serving(r) == kind[r] # "none" /\ Live(proc[r])

\* A request reaches a handler of a live server process.  Slots are taken
\* in order of arrival.
Accept(r, p, k, s) ==
    /\ kind[r] = "none"
    /\ \A x \in Reqs : x < r => kind[x] # "none"
    /\ Live(p)
    /\ kind' = [kind EXCEPT ![r] = k]
    /\ param' = [param EXCEPT ![r] = s]
    /\ proc' = [proc EXCEPT ![r] = p]

\* res.json / res.status(..).json: one more response on the connection.
Send(r, status, body) == [resp EXCEPT ![r] = Append(@, Response(status, body))]

\* setTimeout on behalf of request r, and the moment its callback runs.
Arm(r, ms) ==
    /\ timer' = [timer EXCEPT ![r] = ms]
    /\ armed' = [armed EXCEPT ![r] = ms]

Fired(r) ==
    /\ timer' = [timer EXCEPT ![r] = NoTimer]
    /\ UNCHANGED armed

(* ------------------------------ /health ------------------------------- *)
Health(r, p) ==
    /\ Accept(r, p, "health", <<>>)
    /\ resp' = Send(r, 200, [status |-> "OK", pid |-> p,
                             activeWorkers |-> Cardinality(activeWorkers[p])])
    /\ pc' = [pc EXCEPT ![r] = "done"]
    /\ UNCHANGED <<procVars, activeWorkers, val, timer, armed, workerVars, held>>

(* --------------------------- /api/delay/:ms --------------------------- *)
DelayRequest(r, p, s) ==
    LET delay == OrDefault(ParseInt(s), DefaultDelay)
    IN  /\ Accept(r, p, "delay", s)
        /\ val' = [val EXCEPT ![r] = delay]
        /\ Arm(r, SetTimeout(delay))
        /\ pc' = [pc EXCEPT ![r] = "delaying"]
        /\ UNCHANGED <<procVars, activeWorkers, resp, workerVars, held>>

\* The timer's callback resumes the handler, which answers.  Nothing in the
\* try block throws, so the catch block's 500 is never sent.
DelayTimer(r) ==
    /\ Serving(r) /\ kind[r] = "delay" /\ pc[r] = "delaying" /\ timer[r] = 0
    /\ resp' = Send(r, 200, [message |-> "Response after delay",
                             requested_delay |-> val[r],
                             actual_delay |-> val[r],
                             pid |-> proc[r]])
    /\ Fired(r)
    /\ pc' = [pc EXCEPT ![r] = "done"]
    /\ UNCHANGED <<procVars, activeWorkers, kind, param, proc, val,
                   workerVars, held>>

(* -------------------------- /api/cpu/:seconds ------------------------- *)
\* Mutants: the add or the delete left out.
RegisterNone(set, w) == set
UnregisterNone(set, w) == set

\* activeWorkers.add(worker) and activeWorkers.delete(worker).
Register(set, w) == set \cup {w}
Unregister(set, w) == set \ {w}

\* Mutant: finally without `if (worker)`: terminate is attempted on the
\* missing worker.
CpuRequestBlindCleanup(r, p, s, created) ==
    LET seconds == OrDefault(ParseInt(s), DefaultSeconds)
    IN  /\ Accept(r, p, "cpu", s)
        /\ val' = [val EXCEPT ![r] = seconds]
        /\ IF created
           THEN /\ activeWorkers' = [activeWorkers EXCEPT ![p] = Register(@, r)]
                /\ wstate' = [wstate EXCEPT ![r] = "running"]
                /\ wload' = [wload EXCEPT ![r] = seconds]
                /\ wbusy' = [wbusy EXCEPT ![r] = BusyMs(seconds)]
                /\ Arm(r, CpuTimerDelay(seconds))
                /\ pc' = [pc EXCEPT ![r] = "racing"]
                /\ UNCHANGED <<resp, termCalls>>
           ELSE /\ resp' = Send(r, 500, [error |-> CpuTaskFailed,
                                         details |-> WorkerInitMsg])
                /\ pc' = [pc EXCEPT ![r] = "done"]
                /\ termCalls' = [termCalls EXCEPT ![r] = @ + 1]
                /\ UNCHANGED <<activeWorkers, wstate, wload, wbusy, timer, armed>>
        /\ UNCHANGED <<procVars, posted, inbox, held>>

\* The worker of request r is identified by r: one worker per request.
\* From the handler's entry to its `await Promise.race`: parse, create the
\* worker (created = FALSE: `new Worker` throws, and catch/finally run with
\* `worker` undefined), register it, post the workload, arm the timeout.
CpuRequest(r, p, s, created) ==
    LET seconds == OrDefault(ParseInt(s), DefaultSeconds)
    IN  /\ Accept(r, p, "cpu", s)
        /\ val' = [val EXCEPT ![r] = seconds]
        /\ IF created
           THEN /\ activeWorkers' = [activeWorkers EXCEPT ![p] = Register(@, r)]
                /\ wstate' = [wstate EXCEPT ![r] = "running"]
                /\ wload' = [wload EXCEPT ![r] = seconds]
                /\ wbusy' = [wbusy EXCEPT ![r] = BusyMs(seconds)]
                /\ Arm(r, CpuTimerDelay(seconds))
                /\ pc' = [pc EXCEPT ![r] = "racing"]
                /\ UNCHANGED resp
           ELSE /\ resp' = Send(r, 500, [error |-> CpuTaskFailed,
                                         details |-> WorkerInitMsg])
                /\ pc' = [pc EXCEPT ![r] = "done"]
                /\ UNCHANGED <<activeWorkers, wstate, wload, wbusy, timer, armed>>
        /\ UNCHANGED <<procVars, posted, inbox, termCalls, held>>

\* The worker thread leaves its busy loop and posts { duration }.
WorkerPost(r, jitter) ==
    /\ Serving(r) /\ WorkerRunning(r)
    /\ wbusy[r] = 0
    /\ wstate' = [wstate EXCEPT ![r] = "idle"]
    /\ posted' = [posted EXCEPT ![r] = BusyMs(wload[r]) + jitter]
    /\ inbox' = [inbox EXCEPT ![r] = TRUE]
    /\ UNCHANGED <<procVars, activeWorkers, kind, param, proc, pc, val, resp,
                   timer, armed, wload, wbusy, termCalls, held>>

\* Mutant: the finally block left out.
CpuSettleNoFinally(r, status, body) ==
    /\ resp' = Send(r, status, body)
    /\ pc' = [pc EXCEPT ![r] = "done"]
    /\ UNCHANGED <<termCalls, activeWorkers>>

\* Mutant: the handler answers on every settlement, not on the first only.
CpuSettleEvery(r, status, body) ==
    /\ resp' = Send(r, status, body)
    /\ UNCHANGED pc
    /\ termCalls' = [termCalls EXCEPT ![r] = @ + 1]
    /\ activeWorkers' = [activeWorkers EXCEPT ![proc[r]] = Unregister(@, r)]

\* Mutant: terminate() raises on a worker whose workload is over; the
\* delete is skipped and the error reaches the error middleware.
CpuSettleRaises(r, status, body) ==
    /\ resp' = IF wstate[r] = "idle"
               THEN [Send(r, status, body) EXCEPT
                        ![r] = Append(@, Response(500, [error |-> ServerError,
                                                        pid |-> proc[r]]))]
               ELSE Send(r, status, body)
    /\ pc' = [pc EXCEPT ![r] = "done"]
    /\ termCalls' = [termCalls EXCEPT ![r] = @ + 1]
    /\ activeWorkers' =
           IF wstate[r] = "idle" THEN activeWorkers
           ELSE [activeWorkers EXCEPT ![proc[r]] = Unregister(@, r)]

\* Mutant: the finally block terminates and deletes every registered worker
\* of the process.
CpuSettleSweeps(r, status, body) ==
    /\ resp' = Send(r, status, body)
    /\ pc' = [pc EXCEPT ![r] = "done"]
    /\ termCalls' = [x \in Reqs |->
                        IF x \in activeWorkers[proc[r]] THEN termCalls[x] + 1
                        ELSE termCalls[x]]
    /\ activeWorkers' = [activeWorkers EXCEPT ![proc[r]] = {}]

\* The settled race: the response of the try or catch block, then finally:
\* worker.terminate() and activeWorkers.delete(worker).
CpuSettle(r, status, body) ==
    /\ resp' = Send(r, status, body)
    /\ pc' = [pc EXCEPT ![r] = "done"]
    /\ termCalls' = [termCalls EXCEPT ![r] = @ + 1]
    /\ activeWorkers' = [activeWorkers EXCEPT ![proc[r]] = Unregister(@, r)]

\* worker.on('message', resolve): the first settlement of the race answers
\* 200; on a race already settled resolve() does nothing.
OnWorkerMessage(r) ==
    /\ Serving(r) /\ kind[r] = "cpu" /\ inbox[r]
    /\ inbox' = [inbox EXCEPT ![r] = FALSE]
    /\ IF pc[r] = "racing"
       THEN CpuSettle(r, 200, [message |-> "CPU intensive task completed",
                               seconds_requested |-> val[r],
                               actual_duration_ms |-> posted[r],
                               pid |-> proc[r]])
       ELSE UNCHANGED <<resp, pc, termCalls, activeWorkers>>
    /\ UNCHANGED <<procVars, kind, param, proc, val, timer, armed, wstate,
                   wload, wbusy, posted, held>>

\* worker.on('error', reject): the worker thread raised, which ends its loop.
OnWorkerError(r) ==
    /\ Serving(r) /\ kind[r] = "cpu" /\ WorkerRunning(r) /\ pc[r] = "racing"
    /\ wstate' = [wstate EXCEPT ![r] = "errored"]
    /\ wbusy' = [wbusy EXCEPT ![r] = 0]
    /\ CpuSettle(r, 500, [error |-> CpuTaskFailed, details |-> WorkerErrorMsg])
    /\ UNCHANGED <<procVars, kind, param, proc, val, timer, armed, wload,
                   posted, inbox, held>>

\* The timeout timer's callback: reject(new Error('Worker timeout')).  The
\* timer is never cleared, so it also fires after the race is settled.
CpuTimeout(r) ==
    /\ Serving(r) /\ kind[r] = "cpu" /\ timer[r] = 0
    /\ Fired(r)
    /\ IF pc[r] = "racing"
       THEN CpuSettle(r, 500, [error |-> CpuTaskFailed,
                               details |-> WorkerTimeoutMsg])
       ELSE UNCHANGED <<resp, pc, termCalls, activeWorkers>>
    /\ UNCHANGED <<procVars, kind, param, proc, val, wstate, wload, wbusy,
                   posted, inbox, held>>

(* --------------------------- /api/memory/:mb -------------------------- *)
\* global.gc(): one more forced collection in process p.
Collect(calls, p) == [calls EXCEPT ![p] = @ + 1]

Chunks(targetMB) == targetMB \div chunkSizeMB

MemoryDone(r, p, targetMB) ==
    /\ resp' = Send(r, 200, [message |-> "Memory allocation completed",
                             requested_mb |-> targetMB, pid |-> p])
    /\ Arm(r, SetTimeout(ReleaseAfterMs))
    /\ pc' = [pc EXCEPT ![r] = "mem_release"]

MemoryFailed(r) ==
    /\ resp' = Send(r, 500, [error |-> AllocFailed, details |-> AllocErrorMsg])
    /\ Fired(r)
    /\ pc' = [pc EXCEPT ![r] = "done"]

\* One pass of the allocation loop up to its await (allocated = FALSE:
\* Buffer.alloc throws), or the code after the loop when no chunk is left.
MemoryStep(r, p, targetMB, allocated) ==
    IF held[r] >= Chunks(targetMB)
    THEN MemoryDone(r, p, targetMB) /\ UNCHANGED held
    ELSE IF allocated
         THEN /\ held' = [held EXCEPT ![r] = @ + 1]
              /\ Arm(r, SetTimeout(AllocPauseMs))
              /\ pc' = [pc EXCEPT ![r] = "mem_alloc"]
              /\ UNCHANGED resp
         ELSE /\ MemoryFailed(r)
              /\ held' = [held EXCEPT ![r] = 0]

MemoryRequest(r, p, s, allocated) ==
    /\ Accept(r, p, "memory", s)
    /\ val' = [val EXCEPT ![r] = OrDefault(ParseInt(s), DefaultMB)]
    /\ MemoryStep(r, p, OrDefault(ParseInt(s), DefaultMB), allocated)
    /\ UNCHANGED <<procVars, activeWorkers, workerVars>>

\* The 100 ms pause between two allocations is over.
MemoryPause(r, allocated) ==
    /\ Serving(r) /\ kind[r] = "memory" /\ pc[r] = "mem_alloc" /\ timer[r] = 0
    /\ MemoryStep(r, proc[r], val[r], allocated)
    /\ UNCHANGED <<procVars, activeWorkers, kind, param, proc, val,
                   workerVars>>

\* The release timer: memoryChunks.length = 0, then a forced collection and
\* a logging timer when global.gc exists.
MemoryRelease(r) ==
    /\ Serving(r) /\ kind[r] = "memory" /\ pc[r] = "mem_release" /\ timer[r] = 0
    /\ held' = [held EXCEPT ![r] = 0]
    /\ IF exposeGc
       THEN /\ gcCalls' = Collect(gcCalls, proc[r])
            /\ Arm(r, SetTimeout(GcSettleMs))
            /\ pc' = [pc EXCEPT ![r] = "mem_gclog"]
       ELSE /\ Fired(r)
            /\ pc' = [pc EXCEPT ![r] = "done"]
            /\ UNCHANGED gcCalls
    /\ UNCHANGED <<procs, pendingExit, exposeGc, gcStats, activeWorkers, kind,
                   param, proc, val, resp, workerVars>>

MemoryGcLog(r) ==
    /\ Serving(r) /\ kind[r] = "memory" /\ pc[r] = "mem_gclog" /\ timer[r] = 0
    /\ Fired(r)
    /\ pc' = [pc EXCEPT ![r] = "done"]
    /\ UNCHANGED <<procVars, activeWorkers, kind, param, proc, val, resp, workerVars, held>>

(* ------------------------------ /api/gc ------------------------------- *)
\* Mutant: the handler does not look at global.gc before collecting.
GcRequestUnguarded(r, p, collected) ==
    /\ Accept(r, p, "gc", <<>>)
    /\ gcCalls' = Collect(gcCalls, p)
    /\ Arm(r, SetTimeout(GcSettleMs))
    /\ pc' = [pc EXCEPT ![r] = "gc_settle"]
    /\ UNCHANGED <<procs, pendingExit, exposeGc, gcStats, resp, activeWorkers,
                   val, workerVars, held>>

\* collected = FALSE: global.gc() throws and the catch block answers.
GcRequest(r, p, collected) ==
    /\ Accept(r, p, "gc", <<>>)
    /\ IF ~exposeGc
       THEN /\ resp' = Send(r, 400, [error |-> GcUnavailable,
                                     message |-> GcFlagMsg])
            /\ pc' = [pc EXCEPT ![r] = "done"]
            /\ UNCHANGED <<timer, armed, gcCalls>>
       ELSE IF collected
            THEN /\ gcCalls' = Collect(gcCalls, p)
                 /\ Arm(r, SetTimeout(GcSettleMs))
                 /\ pc' = [pc EXCEPT ![r] = "gc_settle"]
                 /\ UNCHANGED resp
            ELSE /\ resp' = Send(r, 500, [error |-> GcFailed,
                                          details |-> GcErrorMsg])
                 /\ pc' = [pc EXCEPT ![r] = "done"]
                 /\ UNCHANGED <<timer, armed, gcCalls>>
    /\ UNCHANGED <<procs, pendingExit, exposeGc, gcStats, activeWorkers, val,
                   workerVars, held>>

\* The PerformanceObserver's callback on a 'gc' entry (a forced or an
\* ordinary collection); the observer exists only when global.gc does.
GcObserved(p) ==
    /\ exposeGc /\ Live(p)
    /\ gcStats[p] < MaxGc
    /\ gcStats' = [gcStats EXCEPT ![p] = @ + 1]
    /\ UNCHANGED <<procs, pendingExit, exposeGc, gcCalls, activeWorkers, kind,
                   param, proc, pc, val, resp, timer, armed, workerVars, held>>

GcSettle(r) ==
    /\ Serving(r) /\ kind[r] = "gc" /\ pc[r] = "gc_settle" /\ timer[r] = 0
    /\ resp' = Send(r, 200, [message |-> "Manual garbage collection completed"])
    /\ Fired(r)
    /\ pc' = [pc EXCEPT ![r] = "done"]
    /\ UNCHANGED <<procVars, activeWorkers, kind, param, proc, val,
                   workerVars, held>>

(* ---------------------- error handling middleware --------------------- *)
\* A request whose JSON body express.json() cannot parse: next(err) reaches
\* the error middleware.
BadBody(r, p) ==
    /\ Accept(r, p, "bad", <<>>)
    /\ resp' = Send(r, 500, [error |-> ServerError, pid |-> p])
    /\ pc' = [pc EXCEPT ![r] = "done"]
    /\ UNCHANGED <<procVars, activeWorkers, val, timer, armed, workerVars, held>>

(* ------------------------- signals and cluster ------------------------ *)
Unborn == {p \in Pids : procs[p] = "unborn"}

\* Mutant: the loop stops after the first member.
DrainFirst(p) ==
    [r \in Reqs |->
        IF r \in activeWorkers[p] /\ \A x \in activeWorkers[p] : r <= x
        THEN termCalls[r] + 1
        ELSE termCalls[r]]

\* The shutdown loop: worker.terminate() on every member of the Set.
DrainAll(p) ==
    [r \in Reqs |-> IF r \in activeWorkers[p] THEN termCalls[r] + 1
                    ELSE termCalls[r]]

\* process.on('SIGTERM'): terminate every member of activeWorkers, then
\* process.exit(0).  The Set itself is not modified.
Sigterm(p) ==
    /\ Live(p)
    /\ Cardinality(Unborn) > Cardinality(pendingExit)
    /\ termCalls' = DrainAll(p)
    /\ procs' = [procs EXCEPT ![p] = "exited"]
    /\ pendingExit' = pendingExit \cup {p}
    /\ UNCHANGED <<exposeGc, gcStats, gcCalls, activeWorkers, kind, param, proc,
                   pc, val, resp, timer, armed, wstate, wload, wbusy, posted,
                   inbox, held>>

\* A server process dies of something else than its SIGTERM handler (an
\* uncaught exception, a kill): no handler runs, its threads die with it.
Crash(p) ==
    /\ Live(p)
    /\ Cardinality(Unborn) > Cardinality(pendingExit)
    /\ procs' = [procs EXCEPT ![p] = "exited"]
    /\ pendingExit' = pendingExit \cup {p}
    /\ UNCHANGED <<exposeGc, gcStats, gcCalls, activeWorkers, kind, param, proc,
                   pc, val, resp, timer, armed, workerVars, held>>

\* Mutant: the 'exit' handler logs and does not fork.
OnExitNoFork(p) ==
    /\ p \in pendingExit
    /\ pendingExit' = pendingExit \ {p}
    /\ UNCHANGED <<procs, exposeGc, gcStats, gcCalls, activeWorkers, kind, param,
                   proc, pc, val, resp, timer, armed, workerVars, held>>

\* cluster.on('exit'): the primary forks a replacement, which starts with
\* an empty Set.
OnExit(p) ==
    /\ p \in pendingExit
    /\ Unborn # {}
    /\ LET q == CHOOSE x \in Unborn : \A y \in Unborn : x <= y
       IN  /\ procs' = [procs EXCEPT ![q] = "live"]
           /\ activeWorkers' = [activeWorkers EXCEPT ![q] = {}]
    /\ pendingExit' = pendingExit \ {p}
    /\ UNCHANGED <<exposeGc, gcStats, gcCalls, kind, param, proc, pc, val, resp,
                   timer, armed, workerVars, held>>

(* ------------------------------- time --------------------------------- *)
Min(S) == CHOOSE x \in S : \A y \in S : x <= y

Waits ==
    {timer[r] : r \in {x \in Reqs : Serving(x) /\ timer[x] > 0}}
    \cup {wbusy[r] : r \in {x \in Reqs : Serving(x) /\ WorkerRunning(x)
                                          /\ wbusy[x] > 0}}

\* Time passes up to the next moment at which something can happen.
Tick ==
    /\ Waits # {}
    /\ LET d == Min(Waits)
       IN  /\ timer' = [r \in Reqs |->
                          IF Serving(r) /\ timer[r] > 0 THEN timer[r] - d
                          ELSE timer[r]]
           /\ wbusy' = [r \in Reqs |->
                          IF Serving(r) /\ WorkerRunning(r) /\ wbusy[r] > 0
                          THEN wbusy[r] - d
                          ELSE wbusy[r]]
    /\ UNCHANGED <<procVars, activeWorkers, kind, param, proc, pc, val, resp,
                   armed, wstate, wload, posted, inbox, termCalls, held>>


(* --------------- the server without workers (part_000) ---------------- *)
\* The earliest revision: one process, no cluster, no worker threads.  Its
\* cpu handler runs the busy loop on the event loop, which runs no other
\* callback until the loop is over.  A request that arrives meanwhile
\* waits in the listening socket ("queued").
InlinePid == 1
DelayParams == {<<"5">>, <<"a">>}
InstanceId == "local"

InitInline ==
    /\ exposeGc = FALSE
    /\ procs = [p \in Pids |-> IF p = InlinePid THEN "live" ELSE "unborn"]
    /\ Quiet

\* The event loop is inside the while loop of a cpu handler.
Blocked == \E r \in Reqs : pc[r] = "looping"

InlineArrive(r, k, s) ==
    /\ Accept(r, InlinePid, k, s)
    /\ pc' = [pc EXCEPT ![r] = "queued"]
    /\ UNCHANGED <<procVars, activeWorkers, val, resp, timer, armed,
                   workerVars, held>>

InlineHealth(r) ==
    /\ kind[r] = "health" /\ pc[r] = "queued" /\ ~Blocked
    /\ resp' = Send(r, 200, "OK")
    /\ pc' = [pc EXCEPT ![r] = "done"]
    /\ UNCHANGED <<procVars, activeWorkers, kind, param, proc, val, timer,
                   armed, workerVars, held>>

InlineDelayRequest(r) ==
    /\ kind[r] = "delay" /\ pc[r] = "queued" /\ ~Blocked
    /\ val' = [val EXCEPT ![r] = OrDefault(ParseInt(param[r]), DefaultDelay)]
    /\ Arm(r, SetTimeout(OrDefault(ParseInt(param[r]), DefaultDelay)))
    /\ pc' = [pc EXCEPT ![r] = "delaying"]
    /\ UNCHANGED <<procVars, activeWorkers, kind, param, proc, resp,
                   workerVars, held>>

InlineDelayTimer(r) ==
    /\ kind[r] = "delay" /\ pc[r] = "delaying" /\ timer[r] = 0 /\ ~Blocked
    /\ resp' = Send(r, 200, [message |-> "Response after delay",
                             requested_delay |-> val[r],
                             instance_id |-> InstanceId])
    /\ Fired(r)
    /\ pc' = [pc EXCEPT ![r] = "done"]
    /\ UNCHANGED <<procVars, activeWorkers, kind, param, proc, val,
                   workerVars, held>>

\* The cpu handler enters its while loop ...
InlineCpuRequest(r) ==
    /\ kind[r] = "cpu" /\ pc[r] = "queued" /\ ~Blocked
    /\ val' = [val EXCEPT ![r] = OrDefault(ParseInt(param[r]), DefaultSeconds)]
    /\ wbusy' = [wbusy EXCEPT ![r] =
                    BusyMs(OrDefault(ParseInt(param[r]), DefaultSeconds))]
    /\ pc' = [pc EXCEPT ![r] = "looping"]
    /\ UNCHANGED <<procVars, activeWorkers, kind, param, proc, resp, timer,
                   armed, wstate, wload, posted, inbox, termCalls, held>>

\* ... and leaves it seconds * 1000 ms later, answers and returns.
InlineCpuDone(r) ==
    /\ kind[r] = "cpu" /\ pc[r] = "looping" /\ wbusy[r] = 0
    /\ resp' = Send(r, 200, [message |-> "CPU intensive task completed",
                             seconds_requested |-> val[r],
                             instance_id |-> InstanceId])
    /\ pc' = [pc EXCEPT ![r] = "done"]
    /\ UNCHANGED <<procVars, activeWorkers, kind, param, proc, val, timer,
                   armed, workerVars, held>>

InlineWaits ==
    {timer[r] : r \in {x \in Reqs : timer[x] > 0}}
    \cup {wbusy[r] : r \in {x \in Reqs : pc[x] = "looping" /\ wbusy[x] > 0}}

\* Time passes for the timers and for the busy loop alike.
InlineTick ==
    /\ InlineWaits # {}
    /\ LET d == Min(InlineWaits)
       IN  /\ timer' = [r \in Reqs |->
                          IF timer[r] > 0 THEN timer[r] - d ELSE timer[r]]
           /\ wbusy' = [r \in Reqs |->
                          IF pc[r] = "looping" /\ wbusy[r] > 0
                          THEN wbusy[r] - d
                          ELSE wbusy[r]]
    /\ UNCHANGED <<procVars, activeWorkers, kind, param, proc, pc, val, resp,
                   armed, wstate, wload, posted, inbox, termCalls, held>>

(* -------------------------- specifications ---------------------------- *)
\* The cluster under cpu and health traffic in the slots R, signals and time.
Traffic(R) ==
    \/ \E r \in R, p \in Pids : Health(r, p)
    \/ \E r \in R, p \in Pids, s \in CpuParams, created \in BOOLEAN :
           CpuRequest(r, p, s, created)
    \/ \E r \in R : WorkerPost(r, 0)
    \/ \E r \in R : OnWorkerMessage(r)
    \/ \E r \in R : OnWorkerError(r)
    \/ \E r \in R : CpuTimeout(r)
    \/ \E p \in Pids : Sigterm(p)
    \/ \E p \in Pids : OnExit(p)
    \/ Tick

Next == Traffic(Reqs)

Spec == Init /\ [][Next]_vars

\* One request of any endpoint, with every path parameter up to MaxLen, in
\* a cluster that receives no signal.
NextOne ==
    \/ \E p \in Pids : Health(1, p)
    \/ \E p \in Pids, s \in AllParams : DelayRequest(1, p, s)
    \/ DelayTimer(1)
    \/ \E p \in Pids, s \in AllParams, created \in BOOLEAN :
           CpuRequest(1, p, s, created)
    \/ \E jitter \in Jitter : WorkerPost(1, jitter)
    \/ OnWorkerMessage(1)
    \/ OnWorkerError(1)
    \/ CpuTimeout(1)
    \/ \E p \in Pids, s \in MemParams, allocated \in BOOLEAN :
           MemoryRequest(1, p, s, allocated)
    \/ \E allocated \in BOOLEAN : MemoryPause(1, allocated)
    \/ MemoryRelease(1)
    \/ MemoryGcLog(1)
    \/ \E p \in Pids, collected \in BOOLEAN : GcRequest(1, p, collected)
    \/ GcSettle(1)
    \/ \E p \in Pids : BadBody(1, p)
    \/ \E p \in Pids : GcObserved(p)
    \/ Tick

SpecOne == InitOne /\ [][NextOne]_vars

\* The server without workers under health, delay and cpu requests.
NextInline ==
    \/ \E r \in Reqs : InlineArrive(r, "health", <<>>)
    \/ \E r \in Reqs, s \in DelayParams : InlineArrive(r, "delay", s)
    \/ \E r \in Reqs, s \in CpuParams : InlineArrive(r, "cpu", s)
    \/ \E r \in Reqs : InlineHealth(r)
    \/ \E r \in Reqs : InlineDelayRequest(r)
    \/ \E r \in Reqs : InlineDelayTimer(r)
    \/ \E r \in Reqs : InlineCpuRequest(r)
    \/ \E r \in Reqs : InlineCpuDone(r)
    \/ InlineTick

SpecInline == InitInline /\ [][NextInline]_vars

\* The same traffic in MaxLiveReq slots, with the event loop's guarantees:
\* time passes, a due timer's callback runs, a posted message is delivered.
\* Nothing obliges a worker thread to finish, a signal to come or a request
\* to arrive.
LiveReqs == 1..MaxLiveReq

NextLive == Traffic(LiveReqs)

LiveSpec ==
    /\ Init /\ [][NextLive]_vars
    /\ WF_vars(Tick)
    /\ \A r \in LiveReqs : WF_vars(CpuTimeout(r)) /\ WF_vars(OnWorkerMessage(r))

\* The cluster whose server processes exit on SIGTERM or die, in any order
\* with the traffic; the primary's event loop runs the handler of every
\* 'exit' event.
NextCluster ==
    \/ NextLive
    \/ \E p \in Pids : Crash(p)

ClusterSpec ==
    /\ Init /\ [][NextCluster]_vars
    /\ \A p \in Pids : WF_vars(OnExit(p))

(* ------------------------------ claims -------------------------------- *)
Cpu(r) == kind[r] = "cpu"
HasWorker(r) == wstate[r] # "none"
Answered(r) == resp[r] # <<>>
InFlightAt(p) == {r \in Reqs : Cpu(r) /\ proc[r] = p /\ pc[r] = "racing"}

\* C1: once the handler of a cpu request whose worker was created has
\* finished (by the worker's message, the worker's error or the timeout),
\* the worker has been terminated and is no member of activeWorkers.
C1_CleanupOnEveryExit ==
    \A r \in Reqs :
        Cpu(r) /\ HasWorker(r) /\ pc[r] = "done" =>
            /\ Terminated(r)
            /\ r \notin activeWorkers[proc[r]]

\* A handler that finished by the timeout while its worker's message was
\* still undelivered.
C1_Witness ==
    \E r \in Reqs :
        /\ Cpu(r) /\ pc[r] = "done" /\ wstate[r] = "idle" /\ inbox[r]
        /\ resp[r][1].body.details = WorkerTimeoutMsg

\* The two outcomes of a cpu request: 200 with the duration the worker
\* measured, or 500 'CPU task failed'.
CpuOutcome(r, a) ==
    IF a.status = 200
    THEN wstate[r] = "idle" /\ a.body.actual_duration_ms = posted[r]
    ELSE a.status = 500 /\ a.body.error = CpuTaskFailed

\* C2 as stated: every cpu request ends with exactly one outcome, never
\* with two and never with none.  A request has ended when its handler has
\* finished or its process is gone.
C2_Original ==
    \A r \in Reqs :
        Cpu(r) =>
            /\ Len(resp[r]) <= 1
            /\ pc[r] = "done" \/ procs[proc[r]] = "exited" => Len(resp[r]) = 1

\* C2 as amended: a cpu request never gets two responses, its response is
\* one of the two outcomes, and with fair timers it gets one unless its
\* process is shut down first.
C2_OneOutcomeUnlessShutDown ==
    \A r \in Reqs :
        /\ [](Cpu(r) => /\ Len(resp[r]) <= 1
                        /\ \A i \in 1..Len(resp[r]) : CpuOutcome(r, resp[r][i]))
        /\ (Cpu(r) ~> (Cpu(r) /\ (Len(resp[r]) = 1 \/ ~Live(proc[r]))))

\* The worker won the race and the timeout timer fired afterwards.
C2_Witness ==
    \E r \in Reqs :
        /\ Cpu(r) /\ Len(resp[r]) = 1 /\ resp[r][1].status = 200
        /\ armed[r] > 0 /\ timer[r] = NoTimer

C3_Membership ==
    \A p \in Pids : activeWorkers[p] = InFlightAt(p)

C3_HealthStep ==
    \A r \in Reqs :
        kind[r] = "none" /\ kind'[r] = "health" =>
            resp'[r][1].body.activeWorkers = Cardinality(InFlightAt(proc'[r]))

\* C3: a worker is a member of a process's activeWorkers exactly while its
\* cpu request is between registration and cleanup (so the Set of a fresh
\* process is empty), and /health reports the number of such requests.
C3_RegistryIsInFlight == [](C3_Membership) /\ [][C3_HealthStep]_vars

\* /health answered 1 while a cpu request was in flight in its process.
C3_Witness ==
    \E r, x \in Reqs :
        /\ kind[r] = "health" /\ resp[r][1].body.activeWorkers = 1
        /\ x \in activeWorkers[proc[r]]

C4_DrainStep ==
    \A p \in Pids :
        Live(p) /\ procs'[p] = "exited" =>
            /\ \A r \in activeWorkers[p] : termCalls'[r] > 0
            /\ activeWorkers'[p] = activeWorkers[p]

C5_NoWorkerSurvives ==
    \A r \in Reqs :
        Cpu(r) /\ HasWorker(r) /\ procs[proc[r]] = "exited" => Terminated(r)

C5_NoResponseStep ==
    \A r \in Reqs :
        kind[r] # "none" /\ procs[proc[r]] = "exited" => resp'[r] = resp[r]

\* C5: when a process has exited on SIGTERM every worker it had is
\* terminated, and no request of that process is answered afterwards.
C5_ShutdownAbandons == [](C5_NoWorkerSurvives) /\ [][C5_NoResponseStep]_vars

\* A request in flight at the signal: unanswered, its worker terminated,
\* its timeout timer due.
C5_Witness ==
    \E r \in Reqs :
        /\ Cpu(r) /\ procs[proc[r]] = "exited" /\ pc[r] = "racing"
        /\ ~Answered(r) /\ Terminated(r) /\ timer[r] = 0

\* C6: a handler waiting on the race has a worker, has posted it the
\* workload and has it registered in its process's activeWorkers.
C6_RegisteredBeforeAwait ==
    \A r \in Reqs :
        Cpu(r) /\ pc[r] = "racing" =>
            /\ r \in activeWorkers[proc[r]]
            /\ HasWorker(r) /\ wload[r] = val[r]

\* Two handlers of one process waiting on their races.
C6_Witness ==
    \E r, x \in Reqs :
        /\ r # x /\ proc[r] = proc[x]
        /\ Cpu(r) /\ pc[r] = "racing" /\ Cpu(x) /\ pc[x] = "racing"

(* --------------- claims of the one-request specification -------------- *)
\* A path parameter that is the decimal numeral of an integer >= 0, and
\* that integer.
IsDecimal(s) ==
    /\ s # <<>>
    /\ \A i \in 1..Len(s) :
           s[i] \in {"0", "1", "2", "3", "4", "5", "6", "7", "8", "9"}

IntOf(s) == DigitsValue(s, Len(s), 10)

C8_Original ==
    \A r \in Reqs :
        kind[r] = "delay" /\ IsDecimal(param[r]) /\ Answered(r) =>
            /\ resp[r][1].status = 200
            /\ timer[r] = NoTimer /\ armed[r] >= IntOf(param[r])
            /\ resp[r][1].body.requested_delay = IntOf(param[r])
            /\ resp[r][1].body.actual_delay = IntOf(param[r])

\* C9: GET /api/cpu/seconds with seconds the numeral of an integer >= 0
\* posts that integer to the worker, arms the timeout with
\* seconds * 1000 + 5000 and reports that integer as seconds_requested.
C9_Original ==
    \A r \in Reqs :
        Cpu(r) /\ IsDecimal(param[r]) /\ HasWorker(r) =>
            /\ wload[r] = IntOf(param[r])
            /\ IntOf(param[r]) <= 2147478
            /\ armed[r] = IntOf(param[r]) * 1000 + 5000
            /\ \A i \in 1..Len(resp[r]) :
                   resp[r][i].status = 200 =>
                       resp[r][i].body.seconds_requested = IntOf(param[r])

\* C10: every failure response has an `error` and a `details` field.
C10_Original ==
    \A r \in Reqs : \A i \in 1..Len(resp[r]) :
        resp[r][i].status >= 400 =>
            {"error", "details"} \subseteq DOMAIN resp[r][i].body

C11_Step ==
    \A r \in Reqs :
        kind[r] = "none" /\ kind'[r] = "gc" /\ ~exposeGc =>
            /\ resp'[r] = <<[status |-> 400,
                             body |-> [error |-> GcUnavailable,
                                       message |-> GcFlagMsg]]>>
            /\ pc'[r] = "done"
            /\ gcCalls' = gcCalls /\ gcStats' = gcStats
            /\ timer' = timer /\ armed' = armed
            /\ activeWorkers' = activeWorkers /\ held' = held
            /\ termCalls' = termCalls

\* C11: POST /api/gc in a process without global.gc is answered 400 with
\* an error and an explanatory message; the handler makes no collection,
\* arms no timer and leaves activeWorkers, gcStats and the held chunks as
\* they were, and gcStats stays as it was at start for good.
C11_GcUnavailable ==
    /\ [][C11_Step]_vars
    /\ [](~exposeGc => \A p \in Pids : gcStats[p] = 0 /\ gcCalls[p] = 0)

\* POST /api/gc answered 400.
C11_Witness ==
    /\ ~exposeGc /\ kind[1] = "gc" /\ Answered(1)
    /\ resp[1][1].status = 400 /\ timer[1] = NoTimer

\* A cpu workload is running: in a worker thread, or in the handler itself.
CpuBusy(r) ==
    /\ Cpu(r) /\ wbusy[r] > 0
    /\ pc[r] = "looping" \/ (pc[r] = "racing" /\ WorkerRunning(r))

\* The next callback of request x can run now.
CanProceed(x) ==
    /\ pc[x] = "queued" =>
           ENABLED (InlineHealth(x) \/ InlineDelayRequest(x)
                        \/ InlineCpuRequest(x))
    /\ kind[x] = "delay" /\ pc[x] = "delaying" /\ timer[x] = 0 =>
           ENABLED (InlineDelayTimer(x) \/ DelayTimer(x))

\* C12: while cpu workloads run, the request path of the process is not
\* blocked: a /health or /api/delay request that has arrived is served
\* without waiting for a workload to finish.
C12_Original ==
    \A r, x \in Reqs :
        CpuBusy(r) /\ kind[x] \in {"health", "delay"} /\ proc[x] = proc[r] =>
            CanProceed(x)

\* The cleanup of request r runs in this step, on a worker whose workload
\* is over.
CleanupOfCompleted(r) ==
    /\ Cpu(r) /\ wstate[r] = "idle"
    /\ pc[r] = "racing" /\ pc'[r] = "done"

C13_Step ==
    \A r \in Reqs :
        CleanupOfCompleted(r) =>
            /\ termCalls'[r] = 1
            /\ wstate'[r] = "idle" /\ posted'[r] = posted[r]
            /\ Len(resp'[r]) = 1
            /\ IF inbox[r] /\ ~inbox'[r]
               THEN /\ resp'[r][1].status = 200
                    /\ resp'[r][1].body.actual_duration_ms = posted[r]
               ELSE /\ resp'[r][1].status = 500
                    /\ resp'[r][1].body.details = <<"worker", "timeout">>
            /\ activeWorkers' =
                   [activeWorkers EXCEPT ![proc[r]] = @ \ {r}]

RequestState(x) ==
    <<kind[x], proc[x], pc[x], val[x], resp[x], timer[x], armed[x], wstate[x],
      wload[x], wbusy[x], posted[x], inbox[x], termCalls[x]>>

RequestStateNext(x) ==
    <<kind'[x], proc'[x], pc'[x], val'[x], resp'[x], timer'[x], armed'[x],
      wstate'[x], wload'[x], wbusy'[x], posted'[x], inbox'[x], termCalls'[x]>>

C14_Step ==
    \A r \in Reqs :
        Cpu(r) /\ pc[r] = "racing" /\ pc'[r] = "done" =>
            /\ termCalls'[r] = termCalls[r] + 1
            /\ \A p \in Pids : activeWorkers'[p] = activeWorkers[p] \ {r}
            /\ \A x \in Reqs \ {r} : RequestStateNext(x) = RequestState(x)

\* C14: the cleanup of one cpu request terminates that request's worker
\* and removes it from activeWorkers, and changes nothing of any other
\* request: its membership, its worker's state, its timer, its handler's
\* position and its responses are as before, whatever settled the race.
C14_CleanupIsLocal == [][C14_Step]_vars

\* One request of a process cleaned up while another of the same process
\* is still waiting on its running worker.
C14_Witness ==
    \E r, x \in Reqs :
        /\ r # x /\ proc[r] = proc[x] /\ Cpu(r) /\ Cpu(x)
        /\ pc[r] = "done" /\ Terminated(r) /\ r \notin activeWorkers[proc[r]]
        /\ pc[x] = "racing" /\ WorkerRunning(x) /\ x \in activeWorkers[proc[x]]

\* C15: once a cpu request has been answered by its worker's completion
\* and its handler has cleaned up, no timer of that request is scheduled.
C15_Original ==
    \A r \in Reqs :
        Cpu(r) /\ pc[r] = "done" /\ wstate[r] = "idle" /\ Len(resp[r]) = 1 =>
            (resp[r][1].status = 200 => timer[r] = NoTimer)

C16_Step ==
    \A r \in Reqs :
        kind[r] = "none" /\ kind'[r] = "cpu" /\ wstate'[r] = "none" =>
            /\ Len(resp'[r]) = 1 /\ resp'[r][1].status = 500
            /\ resp'[r][1].body.error = <<"cpu", "task", "failed">>
            /\ pc'[r] = "done"
            /\ termCalls' = termCalls
            /\ activeWorkers' = activeWorkers
            /\ timer' = timer

\* C16: a cpu request whose worker could not be created is answered 500
\* 'CPU task failed' by the step that receives it; no terminate is called,
\* no timer is armed and activeWorkers is as it was before the request,
\* and nothing happens for that request afterwards.
C16_NoWorkerNoCleanup ==
    /\ [][C16_Step]_vars
    /\ [](\A r \in Reqs :
              Cpu(r) /\ ~HasWorker(r) =>
                  /\ termCalls[r] = 0 /\ timer[r] = NoTimer
                  /\ Len(resp[r]) = 1
                  /\ \A p \in Pids : r \notin activeWorkers[p])

\* A request whose worker could not be created, in a process that has
\* another request's worker registered.
C16_Witness ==
    \E r, x \in Reqs :
        /\ Cpu(r) /\ ~HasWorker(r) /\ pc[r] = "done"
        /\ resp[r][1].body.details = WorkerInitMsg
        /\ r # x /\ activeWorkers[proc[r]] = {x}

LiveProcs == {p \in Pids : Live(p)}
Forked == {p \in Pids : procs[p] # "unborn"}
Exits == {p \in Pids : procs[p] = "exited"}

C17_Counts ==
    /\ Cardinality(LiveProcs) <= 2
    /\ Cardinality(LiveProcs) + Cardinality(pendingExit) = 2
    /\ Cardinality(Forked) = 2 + Cardinality(Exits \ pendingExit)

C17_Step ==
    /\ \A p \in Pids :
           p \in pendingExit /\ p \notin pendingExit' =>
               Cardinality(Forked') = Cardinality(Forked) + 1
    /\ Forked' # Forked =>
           \E p \in pendingExit : pendingExit' = pendingExit \ {p}

\* C17: there are never more than 2 live server processes; the processes
\* forked are the initial 2 and one for every exit the primary has handled,
\* whether the process left through its SIGTERM handler or died; the
\* primary handles every exit, so that 2 processes are live whenever no
\* exit is outstanding.
C17_OneForkPerExit ==
    /\ [](C17_Counts)
    /\ [][C17_Step]_vars
    /\ \A p \in Pids : (p \in pendingExit) ~> (p \notin pendingExit)

\* A process that died with a request in flight (its worker was never
\* terminated by a handler), replaced by a fresh one.
C17_Witness ==
    \E p, q \in Pids, r \in Reqs :
        /\ procs[p] = "exited" /\ pendingExit = {}
        /\ q > workerCount /\ Live(q) /\ Cardinality(LiveProcs) = 2
        /\ proc[r] = p /\ Cpu(r) /\ pc[r] = "racing" /\ ~Terminated(r)

Memory(r) == kind[r] = "memory"

\* The request was not answered 500.
NotFailed(r) == \A i \in 1..Len(resp[r]) : resp[r][i].status = 200

\* The states of a memory request for which `want` chunks are to be
\* allocated: no response and at most `want` chunks while allocating, all
\* `want` chunks held from the response until the release timer (armed with
\* 5000 ms) fires, none afterwards.
MemoryCourse(r, want) ==
    /\ pc[r] = "mem_alloc" =>
           /\ resp[r] = <<>>
           /\ held[r] >= 1 /\ held[r] <= want
           /\ armed[r] = 100 /\ timer[r] >= 0
    /\ pc[r] = "mem_release" =>
           /\ Len(resp[r]) = 1 /\ held[r] = want
           /\ armed[r] = 5000 /\ timer[r] >= 0
    /\ pc[r] \in {"mem_gclog", "done"} => Len(resp[r]) = 1 /\ held[r] = 0

\* One chunk per step, each followed by a pause.
MemoryPace(r) ==
    /\ held'[r] <= held[r] + 1
    /\ held'[r] = held[r] + 1 => pc'[r] = "mem_alloc" /\ timer'[r] = 100
    /\ Len(resp'[r]) > Len(resp[r]) => pc[r] # "mem_release"

\* C18: a GET /api/memory/mb with mb an integer >= 0 that does not fail
\* allocates floor(mb / 10) chunks, one per step with a pause after each,
\* answers only when the last is allocated, holds them all until the
\* release timer armed after the response fires, and holds none once it
\* has fired.
C18_Original ==
    /\ [](\A r \in Reqs :
              Memory(r) /\ IsDecimal(param[r]) /\ NotFailed(r) =>
                  MemoryCourse(r, IntOf(param[r]) \div 10))
    /\ [][\A r \in Reqs : MemoryPace(r)]_vars

====
